---- MODULE Spec2Model ----
(***************************************************************************)
(* ERP stock management: the identifier mapping store (kod_mappings), the  *)
(* stock table with its audit log (actions_log), the undo stack of the     *)
(* editing surface and the reconciliation popup of an uploaded file.       *)
(*                                                                         *)
(* Storage statements are modelled by their SQL meaning over tables keyed  *)
(* by their surrogate key.  Text is a sequence of one-character strings so *)
(* that str.strip() and int() are computed, not assumed.  Every call is    *)
(* synchronous (single user-interface thread), so one handler is one step. *)
(***************************************************************************)
EXTENDS Integers, Sequences, FiniteSets, TLC

(* ------------------------------ bounds -------------------------------- *)
\* most stock rows ever inserted through the add-row dialog
MaxRowId == 2
\* most rows ever inserted into kod_mappings
MaxMapId == 3
\* most entries of actions_log
MaxLog == 3
\* most storage changes made in a run in which a file is reconciled
MaxChanges == 1
\* most mutating repository calls in a run in which such calls may raise
MaxCalls == 2

(* ------------------------- Python values ------------------------------ *)
\* A cell value: a Python int, a Python str, None, or a float that is not
\* negative (its whole part and the digits after the point).
IntV(n) == [t |-> "int", i |-> n, s |-> <<>>]
FloatV(whole, frac) == [t |-> "float", i |-> whole, s |-> frac]
StrV(x) == [t |-> "str", i |-> 0, s |-> x]
NoneV == [t |-> "none", i |-> 0, s |-> <<>>]
EmptyV == StrV(<<>>)

\* str.strip(): drop leading and trailing blanks
RECURSIVE LStrip(_)
LStrip(x) == IF x # <<>> /\ Head(x) = " " THEN LStrip(Tail(x)) ELSE x

RECURSIVE RStrip(_)
RStrip(x) ==
    IF x # <<>> /\ x[Len(x)] = " " THEN RStrip(SubSeq(x, 1, Len(x) - 1)) ELSE x

Strip(x) == RStrip(LStrip(x))

Digits == <<"0", "1", "2", "3", "4", "5", "6", "7", "8", "9">>

IsDigit(c) == \E d \in 1..10 : Digits[d] = c

DigitVal(c) == (CHOOSE d \in 1..10 : Digits[d] = c) - 1

RECURSIVE DigitsVal(_)
DigitsVal(x) ==
    IF x = <<>> THEN 0
    ELSE 10 * DigitsVal(SubSeq(x, 1, Len(x) - 1)) + DigitVal(x[Len(x)])

AllDigits(x) == x # <<>> /\ \A k \in 1..Len(x) : IsDigit(x[k])

\* int(text): surrounding blanks and one sign are accepted, then digits only;
\* anything else raises ValueError (ok = FALSE)
ParseInt(x) ==
    LET t == Strip(x)
        signed == t # <<>> /\ Head(t) \in {"-", "+"}
        body == IF signed THEN Tail(t) ELSE t
    IN  IF AllDigits(body)
        THEN [ok |-> TRUE,
              i |-> IF signed /\ Head(t) = "-" THEN 0 - DigitsVal(body)
                    ELSE DigitsVal(body)]
        ELSE [ok |-> FALSE, i |-> 0]

\* int(value) on a cell value: TypeError on None and ValueError on bad text
\* are both reported as ok = FALSE; a float is truncated
PyInt(v) ==
    IF v.t \in {"int", "float"} THEN [ok |-> TRUE, i |-> v.i]
    ELSE IF v.t = "str" THEN ParseInt(v.s)
    ELSE [ok |-> FALSE, i |-> 0]

RECURSIVE NatToStr(_)
NatToStr(n) ==
    IF n < 10 THEN <<Digits[n + 1]>>
    ELSE NatToStr(n \div 10) \o <<Digits[(n % 10) + 1]>>

\* str(value)
PyStr(v) ==
    IF v.t = "int" THEN (IF v.i < 0 THEN <<"-">> \o NatToStr(0 - v.i) ELSE NatToStr(v.i))
    ELSE IF v.t = "str" THEN v.s
    ELSE IF v.t = "float" THEN NatToStr(v.i) \o <<".">> \o v.s
    ELSE <<"N", "o", "n", "e">>

Truthy(v) == \/ v.t = "str" /\ v.s # <<>>
             \/ v.t = "int" /\ v.i # 0
             \/ v.t = "float" /\ (v.i # 0 \/ \E k \in 1..Len(v.s) : v.s[k] # "0")

\* "value is None or str(value).strip() == ''"
IsBlank(v) == v.t = "none" \/ Strip(PyStr(v)) = <<>>

(* ------------------------------ schema -------------------------------- *)
\* the columns of the main table and their declared types (SHOW COLUMNS)
Cols == <<"KOD", "YER", "MIKTAR">>
ColType(c) == IF c = "MIKTAR" THEN "INT" ELSE "VARCHAR"

NullRow == [KOD |-> NoneV, YER |-> NoneV, MIKTAR |-> NoneV]

(* ------------------------------- text --------------------------------- *)
tA == <<"A">>
tB == <<"B">>
tX == <<"X">>
tSpA == <<" ", "A">>
tXSp == <<"X", " ">>
tR1 == <<"R", "1">>
t2 == <<"2">>
t3 == <<"3">>
tSp3 == <<" ", "3">>
tBad == <<"3", "x">>
tNeg == <<"-", "2">>
tBlank == <<" ">>

(* ------------------------------ state --------------------------------- *)
VARIABLES
    kod_mappings,   \* table kod_mappings: set of rows [id, original_kod, alternative_value]
    next_map_id,    \* AUTO_INCREMENT counter of kod_mappings
    stock,          \* main table: rowid -> [KOD, YER, MIKTAR]
    next_rowid,     \* next rowid the main table assigns
    actions_log,    \* table actions_log in insertion order: <<[level, what]>>
    undo_stack,     \* ERPApp.undo_stack
    popup,          \* the BOM-List window of upload_file: db_df, df, tree rows and tags
    last,           \* the handler that ran last, its inputs and what it returned
    faults          \* how many repository calls have raised (connection lost)

vars == <<kod_mappings, next_map_id, stock, next_rowid, actions_log, undo_stack, popup, last,
          faults>>

NoEntry == [action |-> "none", rowid |-> 0, old |-> NullRow]

\* the add-row dialog with every entry empty
NoEntries == [KOD |-> <<>>, YER |-> <<>>, MIKTAR |-> <<>>]

\* comparison_result of compare_with_database before any comparison ran
NoComparison == [direct_matches |-> {}, mapped_matches |-> {}, still_unmatched |-> {}]

NoLast == [op |-> "init", ret |-> "none", rowid |-> 0, original |-> <<>>,
           alternative |-> <<>>, entry |-> NoEntry, multiplier |-> 1, skipped |-> 0,
           entries |-> NoEntries, col |-> "", text |-> <<>>, listed |-> <<>>,
           comparison |-> NoComparison]

NoPopup == [open |-> FALSE, db_df |-> <<>>, has_qty_orig |-> FALSE, lines |-> <<>>]

(* --------------------------- audit log -------------------------------- *)
\* the INSERT that overwrites the newest entry
log_action_overwriting(log, level, what) ==
    IF log = <<>> THEN <<[level |-> level, what |-> what]>>
    ELSE [log EXCEPT ![Len(log)] = [level |-> level, what |-> what]]

\* log_action(level, message): one INSERT into actions_log
log_action(log, level, what) == Append(log, [level |-> level, what |-> what])

(* ------------------------- mapping store ------------------------------ *)
\* the rows whose pair equals the stripped inputs: the INSERT of
\* create_kod_mapping violates UNIQUE(original_kod, alternative_value) iff
\* this set is not empty
SamePair(maps, original_kod, alternative_value) ==
    {m \in maps : /\ m.original_kod = Strip(original_kod)
                  /\ m.alternative_value = Strip(alternative_value)}

\* the INSERT without the UNIQUE constraint
create_kod_mapping_no_unique(maps, id, original_kod, alternative_value, created_date) ==
    maps \cup {[id |-> id,
                original_kod |-> Strip(original_kod),
                alternative_value |-> Strip(alternative_value),
                created_date |-> created_date]}

\* create_kod_mapping: the table after the INSERT (unchanged on
\* IntegrityError); created_date is the CURRENT_TIMESTAMP of the INSERT
create_kod_mapping(maps, id, original_kod, alternative_value, created_date) ==
    IF SamePair(maps, original_kod, alternative_value) # {}
    THEN maps
    ELSE maps \cup {[id |-> id,
                     original_kod |-> Strip(original_kod),
                     alternative_value |-> Strip(alternative_value),
                     created_date |-> created_date]}

\* the newest created_date of the table (0 for an empty table); timestamps
\* are whole seconds, counted from the oldest row
latest(maps) ==
    IF maps = {} THEN 0
    ELSE CHOOSE d \in {m.created_date : m \in maps} : \A m \in maps : m.created_date <= d

\* CURRENT_TIMESTAMP of an INSERT into kod_mappings: a later second than
\* every stored row, or the second of the newest row when that row was
\* created by the call before this one
current_timestamp(maps, log) ==
    IF log # <<>> /\ log[Len(log)] = [level |-> "INFO", what |-> "create_mapping"]
    THEN {latest(maps), latest(maps) + 1}
    ELSE {latest(maps) + 1}

\* get_all_kod_mappings: SELECT ... ORDER BY created_date DESC; the possible
\* results are the orders of the rows in which no row comes before a row with
\* a later created_date (rows of one second come in any order)
get_all_kod_mappings(maps) ==
    LET n == Cardinality(maps)
        orders == {o \in [1..n -> maps] : \A j, k \in 1..n : o[j] = o[k] => j = k}
    IN  {o \in orders : \A j, k \in 1..n : j < k => o[j].created_date >= o[k].created_date}

\* load_mappings: the ids of the rows as the mapping tree lists them
load_mappings(maps) ==
    {[k \in 1..Len(l) |-> l[k].id] : l \in get_all_kod_mappings(maps)}

\* get_kod_mapping: SELECT ... WHERE alternative_value = strip(str(value)),
\* then fetchone().  The statement has no ORDER BY, so with several rows for
\* one alternative any of them may be the first: the set of possible results.
get_kod_mapping(maps, value) ==
    LET rows == {m \in maps : m.alternative_value = Strip(PyStr(value))}
    IN  IF rows = {} THEN {NoneV} ELSE {StrV(m.original_kod) : m \in rows}

\* the DELETE with id <= mapping_id as its condition
delete_kod_mapping_up_to(maps, mapping_id) == {m \in maps : m.id > mapping_id}

\* delete_kod_mapping: DELETE FROM kod_mappings WHERE id = mapping_id
delete_kod_mapping(maps, mapping_id) == {m \in maps : m.id # mapping_id}

(* --------------------------- stock table ------------------------------ *)
\* the validation that lets every text through
validate_unchecked(c, text) ==
    IF text = <<>> THEN [ok |-> TRUE, v |-> NoneV]
    ELSE [ok |-> TRUE, v |-> StrV(text)]

\* on_ok / save_edit: one entered text against the declared type of column c;
\* '' becomes None, an INT column takes int(text), any other column the text
validate(c, text) ==
    IF text = <<>> THEN [ok |-> TRUE, v |-> NoneV]
    ELSE IF ColType(c) \in {"INTEGER", "INT"}
         THEN [ok |-> ParseInt(text).ok, v |-> IntV(ParseInt(text).i)]
         ELSE [ok |-> TRUE, v |-> StrV(text)]

\* filter_rows: what the main tree shows for a cell
TreeText(v) == IF v.t = "none" THEN <<>> ELSE PyStr(v)

\* the INSERT that leaves only the new row in the table
insert_row_alone(tbl, rowid, row) == [r \in {rowid} |-> row]

\* insert_row: INSERT INTO <table> (cols) VALUES (values); rowid = lastrowid
insert_row(tbl, rowid, row) ==
    [r \in DOMAIN tbl \cup {rowid} |-> IF r = rowid THEN row ELSE tbl[r]]

\* the UPDATE without its WHERE clause
update_cell_no_where(tbl, rowid, col_name, new_value) ==
    [r \in DOMAIN tbl |-> [tbl[r] EXCEPT ![col_name] = new_value]]

\* update_cell: UPDATE <table> SET col_name = new_value WHERE rowid = rowid
update_cell(tbl, rowid, col_name, new_value) ==
    [r \in DOMAIN tbl |->
        IF r = rowid THEN [tbl[r] EXCEPT ![col_name] = new_value] ELSE tbl[r]]

\* the DELETE without its WHERE clause
undo_add_no_where(tbl, rowid) == [r \in {} |-> NullRow]

\* the DELETE of every row up to the given one
undo_add_up_to(tbl, rowid) == [r \in {x \in DOMAIN tbl : x > rowid} |-> tbl[r]]

\* undo_add: DELETE FROM <table> WHERE rowid = rowid
undo_add(tbl, rowid) == [r \in DOMAIN tbl \ {rowid} |-> tbl[r]]

\* the UPDATE that restores the first column only
undo_update_first_column(tbl, rowid, old_vals) ==
    [r \in DOMAIN tbl |->
        IF r = rowid THEN [tbl[r] EXCEPT !.KOD = old_vals.KOD] ELSE tbl[r]]

\* undo_update: UPDATE <table> SET every column = old_vals WHERE rowid = rowid
undo_update(tbl, rowid, old_vals) ==
    [r \in DOMAIN tbl |-> IF r = rowid THEN old_vals ELSE tbl[r]]

(* ------------------------------ inputs -------------------------------- *)
\* what a user types into the two fields of the mapping form
OriginalInputs == {tA, tB, tSpA}
AlternativeInputs == {tX, tXSp, tBlank}

\* what a user types into the add-row dialog: KOD, YER, MIKTAR
RowInputs ==
    { [KOD |-> tA, YER |-> tR1, MIKTAR |-> t2],
      [KOD |-> tSpA, YER |-> <<>>, MIKTAR |-> <<>>],
      [KOD |-> tB, YER |-> tR1, MIKTAR |-> tBad] }

\* what a user types into the cell editor of which column
CellEdits ==
    { <<"KOD", tB>>, <<"YER", <<>>>>, <<"MIKTAR", t3>>, <<"MIKTAR", tBad>>,
      <<"MIKTAR", <<>>>> }

(* ------------------------------- Init --------------------------------- *)
\* The main table and kod_mappings exist before the program starts;
\* actions_log holds the entries written since then and the undo stack is [].
InitialTables ==
    { [r \in {} |-> NullRow],
      [r \in {1} |-> [KOD |-> StrV(tA), YER |-> StrV(tR1), MIKTAR |-> IntV(2)]] }

\* kod_mappings as earlier runs left it: pairs are unique, ids are distinct
InitialMappings ==
    { {},
      {[id |-> 1, original_kod |-> tA, alternative_value |-> tX, created_date |-> 1]},
      {[id |-> 1, original_kod |-> tB, alternative_value |-> tA, created_date |-> 1]},
      {[id |-> 1, original_kod |-> tB, alternative_value |-> tX, created_date |-> 1],
       [id |-> 2, original_kod |-> tA, alternative_value |-> tX, created_date |-> 2]} }

Init ==
    /\ kod_mappings \in InitialMappings
    /\ next_map_id = Cardinality(kod_mappings) + 1
    /\ stock \in InitialTables
    /\ next_rowid = Cardinality(DOMAIN stock) + 1
    /\ actions_log = <<>>
    /\ undo_stack = <<>>
    /\ popup = NoPopup
    /\ last = NoLast
    /\ faults = 0

(* ----------------------- mapping form handlers ------------------------ *)
\* create_mapping (mapping_gui.py) calling create_kod_mapping
CreateMapping(original_text, alternative_text) ==
    LET alt_value == Strip(alternative_text)
        original_kod == Strip(original_text)
    IN  IF alt_value = <<>> \/ original_kod = <<>>
        THEN /\ last' = [NoLast EXCEPT !.op = "create_mapping", !.ret = "rejected",
                            !.original = original_text, !.alternative = alternative_text]
             /\ UNCHANGED <<kod_mappings, next_map_id, stock, next_rowid,
                            actions_log, undo_stack, popup, faults>>
        ELSE /\ Len(actions_log) < MaxLog
             /\ next_map_id <= MaxMapId
             /\ \E created_date \in current_timestamp(kod_mappings, actions_log) :
                    kod_mappings' = create_kod_mapping(kod_mappings, next_map_id,
                                                       original_kod, alt_value, created_date)
             /\ IF SamePair(kod_mappings, original_kod, alt_value) = {}
                THEN /\ next_map_id' = next_map_id + 1
                     /\ actions_log' = log_action(actions_log, "INFO", "create_mapping")
                     /\ \E listed \in load_mappings(kod_mappings') :
                          last' = [NoLast EXCEPT !.op = "create_mapping", !.ret = "true",
                                     !.original = original_text,
                                     !.alternative = alternative_text, !.listed = listed]
                ELSE /\ next_map_id' = next_map_id
                     /\ actions_log' = log_action(actions_log, "WARNING", "create_mapping")
                     /\ last' = [NoLast EXCEPT !.op = "create_mapping", !.ret = "false",
                                    !.original = original_text, !.alternative = alternative_text]
             /\ UNCHANGED <<stock, next_rowid, undo_stack, popup, faults>>

\* delete_selected_mapping calling delete_kod_mapping on a listed row, then
\* load_mappings
DeleteMapping(mapping_id) ==
    /\ Len(actions_log) < MaxLog
    /\ kod_mappings' = delete_kod_mapping(kod_mappings, mapping_id)
    /\ actions_log' = log_action(actions_log, "INFO", "delete_mapping")
    /\ \E listed \in load_mappings(kod_mappings') :
          last' = [NoLast EXCEPT !.op = "delete_mapping", !.rowid = mapping_id,
                                 !.listed = listed]
    /\ UNCHANGED <<next_map_id, stock, next_rowid, undo_stack, popup, faults>>

(* ------------------------- editing surface ---------------------------- *)
\* on_ok: the values of the add-row dialog after validation, column by column
validated_values(entries) ==
    [ok |-> \A k \in 1..Len(Cols) : validate(Cols[k], entries[Cols[k]]).ok,
     row |-> [c \in {Cols[k] : k \in 1..Len(Cols)} |-> validate(c, entries[c]).v]]

\* on_ok of show_add_row_dialog: validate, insert_row, push, load_data
AddRow(entries) ==
    IF ~validated_values(entries).ok
    THEN /\ last' = [NoLast EXCEPT !.op = "add_row", !.ret = "invalid", !.entries = entries]
         /\ UNCHANGED <<kod_mappings, next_map_id, stock, next_rowid, actions_log,
                        undo_stack, popup, faults>>
    ELSE /\ Len(actions_log) < MaxLog
         /\ next_rowid <= MaxRowId
         /\ stock' = insert_row(stock, next_rowid, validated_values(entries).row)
         /\ next_rowid' = next_rowid + 1
         /\ actions_log' = log_action(actions_log, "INFO", "insert")
         /\ undo_stack' = Append(undo_stack,
                                 [action |-> "add", rowid |-> next_rowid, old |-> NullRow])
         /\ last' = [NoLast EXCEPT !.op = "add_row", !.ret = "ok", !.rowid = next_rowid,
                                    !.entries = entries]
         /\ UNCHANGED <<kod_mappings, next_map_id, popup, faults>>

\* save_edit of on_tree_cell_double_click: validate, compare with the shown
\* text, update_cell, push the returned full row, load_data
EditCell(rowid, col_name, new_value) ==
    /\ rowid \in DOMAIN stock
    /\ IF ~validate(col_name, new_value).ok
       THEN /\ last' = [NoLast EXCEPT !.op = "edit_cell", !.ret = "invalid", !.rowid = rowid,
                               !.col = col_name, !.text = new_value]
            /\ UNCHANGED <<kod_mappings, next_map_id, stock, next_rowid, actions_log,
                           undo_stack, popup, faults>>
       ELSE IF validate(col_name, new_value).v = StrV(TreeText(stock[rowid][col_name]))
       THEN /\ last' = [NoLast EXCEPT !.op = "edit_cell", !.ret = "same", !.rowid = rowid,
                               !.col = col_name, !.text = new_value]
            /\ UNCHANGED <<kod_mappings, next_map_id, stock, next_rowid, actions_log,
                           undo_stack, popup, faults>>
       ELSE /\ Len(actions_log) < MaxLog
            /\ stock' = update_cell(stock, rowid, col_name, validate(col_name, new_value).v)
            /\ actions_log' = log_action(actions_log, "INFO", "update")
            /\ undo_stack' = Append(undo_stack,
                                    [action |-> "update", rowid |-> rowid, old |-> stock[rowid]])
            /\ last' = [NoLast EXCEPT !.op = "edit_cell", !.ret = "ok", !.rowid = rowid,
                               !.col = col_name, !.text = new_value]
            /\ UNCHANGED <<kod_mappings, next_map_id, next_rowid, popup, faults>>

\* a pop from the wrong end: the first entry and the stack without it
pop_first(stack) == [entry |-> Head(stack), rest |-> Tail(stack)]

\* self.undo_stack.pop(): the last entry and the stack without it
pop(stack) ==
    [entry |-> stack[Len(stack)], rest |-> SubSeq(stack, 1, Len(stack) - 1)]

\* undo_action: pop the last entry, undo_add or undo_update, load_data
UndoAction ==
    IF undo_stack = <<>>
    THEN /\ last' = [NoLast EXCEPT !.op = "undo", !.ret = "empty"]
         /\ UNCHANGED <<kod_mappings, next_map_id, stock, next_rowid, actions_log,
                        undo_stack, popup, faults>>
    ELSE LET entry == pop(undo_stack).entry
         IN  /\ Len(actions_log) < MaxLog
             /\ undo_stack' = pop(undo_stack).rest
             /\ IF entry.action = "add"
                THEN /\ stock' = undo_add(stock, entry.rowid)
                     /\ actions_log' = log_action(actions_log, "INFO", "undo_add")
                ELSE /\ stock' = undo_update(stock, entry.rowid, entry.old)
                     /\ actions_log' = log_action(actions_log, "INFO", "undo_update")
             /\ last' = [NoLast EXCEPT !.op = "undo", !.ret = "ok", !.entry = entry,
                                        !.rowid = entry.rowid]
             /\ UNCHANGED <<kod_mappings, next_map_id, next_rowid, popup, faults>>

(* --------------------------- reconciliation --------------------------- *)
\* db_df[db_df['KOD'] == value]: the positions of db_df whose KOD equals the
\* value as it stands (no strip); a NULL KOD equals nothing
db_row(db_df, value) ==
    {k \in 1..Len(db_df) : db_df[k].KOD.t # "none" /\ db_df[k].KOD = value}

\* db_row.iloc[0]
iloc0(db_df, ks) == db_df[CHOOSE k \in ks : \A j \in ks : k <= j]

\* the stock check with the comparison turned round
stock_check_reversed(qty_file, qty_db) ==
    IF /\ qty_file.t # "none"
       /\ qty_db.t # "none"
       /\ Strip(PyStr(qty_file)) # <<>>
       /\ Strip(PyStr(qty_db)) # <<>>
    THEN IF PyInt(qty_file).ok /\ PyInt(qty_db).ok
         THEN IF PyInt(qty_file).i >= PyInt(qty_db).i
              THEN IntV(PyInt(qty_db).i - PyInt(qty_file).i)
              ELSE IntV(PyInt(qty_file).i)
         ELSE EmptyV
    ELSE EmptyV

\* the stock_check of upload_file and apply_qty_multiplier for one line
stock_check(qty_file, qty_db) ==
    IF /\ qty_file.t # "none"
       /\ qty_db.t # "none"
       /\ Strip(PyStr(qty_file)) # <<>>
       /\ Strip(PyStr(qty_db)) # <<>>
    THEN IF PyInt(qty_file).ok /\ PyInt(qty_db).ok
         THEN IF PyInt(qty_file).i > PyInt(qty_db).i
              THEN IntV(PyInt(qty_db).i - PyInt(qty_file).i)
              ELSE IntV(PyInt(qty_file).i)
         ELSE EmptyV
    ELSE EmptyV

\* direct match first, then the mapped identifier; Box and In Stock of one
\* line.  mapped_kod is what get_kod_mapping(value) returned.
annotate(db_df, value, mapped_kod, qty) ==
    LET direct == db_row(db_df, value)
        ks == IF direct # {} THEN direct
              ELSE IF Truthy(mapped_kod) THEN db_row(db_df, mapped_kod) ELSE {}
    IN  IF ks # {}
        THEN [Box |-> PyStr(iloc0(db_df, ks).YER),
              InStock |-> PyStr(stock_check(qty, iloc0(db_df, ks).MIKTAR))]
        ELSE [Box |-> <<>>, InStock |-> <<>>]

\* db_df['KOD'].astype(str).str.strip() of a fresh fetch_all_rows
norm_kods(tbl) == {Strip(PyStr(tbl[r].KOD)) : r \in DOMAIN tbl}

\* the comparison without the strip of the uploaded value
tag_of_unstripped(tbl, value, mapped_kod) ==
    IF PyStr(value) \in norm_kods(tbl) THEN "direct_match"
    ELSE IF Truthy(mapped_kod) /\ mapped_kod.s \in norm_kods(tbl) THEN "mapped_match"
    ELSE ""

\* the comparison that takes any mapping as a match
tag_of_any_mapping(tbl, value, mapped_kod) ==
    IF Strip(PyStr(value)) \in norm_kods(tbl) THEN "direct_match"
    ELSE IF Truthy(mapped_kod) THEN "mapped_match"
    ELSE ""

\* compare_with_mappings followed by the tagging of compare_with_database,
\* for one line; mapped_kod is what get_kod_mapping returned for the
\* stripped value
tag_of(tbl, value, mapped_kod) ==
    IF Strip(PyStr(value)) \in norm_kods(tbl) THEN "direct_match"
    ELSE IF Truthy(mapped_kod) /\ mapped_kod.s \in norm_kods(tbl) THEN "mapped_match"
    ELSE ""

\* the loop that appends every unmatched line to still_unmatched
compare_with_mappings_no_else(file_df, tbl, mapped) ==
    LET n == Len(file_df)
        isin(k) == Strip(PyStr(file_df[k].Value)) \in norm_kods(tbl)
        unmatched == {k \in 1..n : ~isin(k)}
        found(k) == Truthy(mapped[k]) /\ mapped[k].s \in norm_kods(tbl)
    IN  [direct_matches |-> {k \in 1..n : isin(k)},
         mapped_matches |-> {k \in unmatched : found(k)},
         still_unmatched |-> unmatched]

\* compare_with_mappings: the index labels of the lines in each of the three
\* frames it returns; mapped[k] is what get_kod_mapping returned for line k
compare_with_mappings(file_df, tbl, mapped) ==
    LET n == Len(file_df)
        isin(k) == Strip(PyStr(file_df[k].Value)) \in norm_kods(tbl)
        unmatched == {k \in 1..n : ~isin(k)}
        found(k) == Truthy(mapped[k]) /\ mapped[k].s \in norm_kods(tbl)
    IN  [direct_matches |-> {k \in 1..n : isin(k)},
         mapped_matches |-> {k \in unmatched : found(k)},
         still_unmatched |-> {k \in unmatched : ~found(k)}]

\* the possible results of fetch_all_rows as a DataFrame: the rows of the
\* table in any order (SELECT * has no ORDER BY)
fetch_all_rows(tbl) ==
    LET n == Cardinality(DOMAIN tbl)
        orders == {o \in [1..n -> DOMAIN tbl] : \A j, k \in 1..n : o[j] = o[k] => j = k}
    IN  {[k \in 1..n |-> tbl[o[k]]] : o \in orders}

\* what the calls get_kod_mapping(value_1) .. get_kod_mapping(value_n) of one
\* pass over the lines can return
RECURSIVE Choices(_)
Choices(sets) ==
    IF sets = <<>> THEN {<<>>}
    ELSE {<<h>> \o t : h \in Head(sets), t \in Choices(Tail(sets))}

mapped_kods(maps, lines) ==
    Choices([k \in 1..Len(lines) |-> get_kod_mapping(maps, lines[k].Value)])

\* the files a user uploads: the Value and Qty of every line
Files ==
    { <<[Value |-> StrV(tA), Qty |-> IntV(3)]>>,
      <<[Value |-> StrV(tA), Qty |-> IntV(1)], [Value |-> StrV(tX), Qty |-> StrV(tSp3)]>>,
      <<[Value |-> StrV(tSpA), Qty |-> IntV(1)]>>,
      <<[Value |-> StrV(tX), Qty |-> StrV(tBad)], [Value |-> StrV(tB), Qty |-> NoneV]>>,
      <<[Value |-> StrV(tA), Qty |-> StrV(tBlank)]>>,
      <<[Value |-> StrV(tA), Qty |-> FloatV(2, <<"5">>)],
        [Value |-> StrV(tA), Qty |-> FloatV(3, <<"0">>)]>> }

\* what a user types into "The Amount of Card"
MultiplierInputs == {t2, tNeg, tBad}

\* the upload that writes an entry to actions_log
UploadFile_logged(file) ==
    \E db_df \in fetch_all_rows(stock) :
    \E m1 \in mapped_kods(kod_mappings, file), m2 \in mapped_kods(kod_mappings, file) :
        /\ Len(actions_log) < MaxLog
        /\ popup' =
             [open |-> TRUE,
              db_df |-> db_df,
              has_qty_orig |-> FALSE,
              lines |->
                [k \in 1..Len(file) |->
                   [Value |-> file[k].Value,
                    Qty |-> file[k].Qty,
                    Qty_orig |-> NoneV,
                    Box |-> annotate(db_df, file[k].Value, m1[k], file[k].Qty).Box,
                    InStock |-> annotate(db_df, file[k].Value, m1[k], file[k].Qty).InStock,
                    tags |-> tag_of(stock, file[k].Value, m2[k])]]]
        /\ actions_log' = log_action(actions_log, "INFO", "upload")
        /\ last' = [NoLast EXCEPT !.op = "upload",
                       !.comparison = compare_with_mappings(file, stock, m2)]
        /\ UNCHANGED <<kod_mappings, next_map_id, stock, next_rowid, undo_stack, faults>>

\* upload_file: read the file, fetch the table, annotate every line, then
\* compare_with_database tags every line
UploadFile(file) ==
    \E db_df \in fetch_all_rows(stock) :
    \E m1 \in mapped_kods(kod_mappings, file), m2 \in mapped_kods(kod_mappings, file) :
        /\ popup' =
             [open |-> TRUE,
              db_df |-> db_df,
              has_qty_orig |-> FALSE,
              lines |->
                [k \in 1..Len(file) |->
                   [Value |-> file[k].Value,
                    Qty |-> file[k].Qty,
                    Qty_orig |-> NoneV,
                    Box |-> annotate(db_df, file[k].Value, m1[k], file[k].Qty).Box,
                    InStock |-> annotate(db_df, file[k].Value, m1[k], file[k].Qty).InStock,
                    tags |-> tag_of(stock, file[k].Value, m2[k])]]]
        /\ last' = [NoLast EXCEPT !.op = "upload",
                       !.comparison = compare_with_mappings(file, stock, m2)]
        /\ UNCHANGED <<kod_mappings, next_map_id, stock, next_rowid, actions_log, undo_stack,
                       faults>>

\* the multiplier of apply_qty_multiplier: int(text), 1 on ValueError
multiplier_of(text) == IF ParseInt(text).ok THEN ParseInt(text).i ELSE 1

\* the new quantity without the multiplication
new_qty_unscaled(orig_qty, multiplier) ==
    IF orig_qty.t = "none" \/ Strip(PyStr(orig_qty)) = <<>>
    THEN [qty |-> orig_qty, skipped |-> TRUE]
    ELSE IF PyInt(orig_qty).ok
         THEN [qty |-> IntV(PyInt(orig_qty).i), skipped |-> FALSE]
         ELSE [qty |-> orig_qty, skipped |-> TRUE]

\* new_qty of one line (lines 383-393): [qty, skipped]
new_qty(orig_qty, multiplier) ==
    IF orig_qty.t = "none" \/ Strip(PyStr(orig_qty)) = <<>>
    THEN [qty |-> orig_qty, skipped |-> TRUE]
    ELSE IF PyInt(orig_qty).ok
         THEN [qty |-> IntV(IF multiplier # 1 THEN PyInt(orig_qty).i * multiplier
                            ELSE PyInt(orig_qty).i),
               skipped |-> FALSE]
         ELSE [qty |-> orig_qty, skipped |-> TRUE]

\* apply_qty_multiplier: new quantities, Box and In Stock of every line from
\* the db_df of the upload, then compare_with_database on a fresh fetch
ApplyQtyMultiplier(text) ==
    /\ popup.open
    /\ LET n == Len(popup.lines)
           multiplier == multiplier_of(text)
           orig(k) == IF popup.has_qty_orig THEN popup.lines[k].Qty_orig
                      ELSE popup.lines[k].Qty
       IN  \E m1 \in mapped_kods(kod_mappings, popup.lines),
              m2 \in mapped_kods(kod_mappings, popup.lines) :
             /\ popup' =
                  [popup EXCEPT
                     !.has_qty_orig = TRUE,
                     !.lines =
                       [k \in 1..n |->
                          LET q == new_qty(orig(k), multiplier).qty
                              a == annotate(popup.db_df, popup.lines[k].Value, m1[k], q)
                          IN  [Value |-> popup.lines[k].Value,
                               Qty |-> q,
                               Qty_orig |-> orig(k),
                               Box |-> a.Box,
                               InStock |-> a.InStock,
                               tags |-> tag_of(stock, popup.lines[k].Value, m2[k])]]]
             /\ last' = [NoLast EXCEPT
                           !.op = "apply_qty_multiplier",
                           !.text = text,
                           !.multiplier = multiplier,
                           !.comparison = compare_with_mappings(popup.lines, stock, m2),
                           !.skipped = Cardinality({k \in 1..n :
                                          new_qty(orig(k), multiplier).skipped})]
             /\ UNCHANGED <<kod_mappings, next_map_id, stock, next_rowid, actions_log,
                            undo_stack, faults>>

(* ------------------------------ export -------------------------------- *)
\* export_to_excel: the table is written to the chosen file, then log_action
ExportToExcel ==
    /\ Len(actions_log) < MaxLog
    /\ actions_log' = log_action(actions_log, "INFO", "export")
    /\ last' = [NoLast EXCEPT !.op = "export", !.ret = "ok"]
    /\ UNCHANGED <<kod_mappings, next_map_id, stock, next_rowid, undo_stack, popup, faults>>

(* --------------------- repository calls that raise -------------------- *)
\* Every repository function opens its own connection, runs its statement,
\* commits, closes, and then calls log_action, which opens a second
\* connection.  When the server is lost the call raises either before its own
\* commit ("statement": nothing is stored) or inside log_action ("log": the
\* statement is committed, the log entry is not written).
FaultPoints == {"statement", "log"}

\* on_ok when insert_row raises: the error box is shown and on_ok returns
\* before the push and before load_data
AddRowFails(entries, at) ==
    /\ Len(actions_log) + faults < MaxCalls
    /\ faults' = faults + 1
    /\ validated_values(entries).ok
    /\ next_rowid <= MaxRowId
    /\ IF at = "log"
       THEN /\ stock' = insert_row(stock, next_rowid, validated_values(entries).row)
            /\ next_rowid' = next_rowid + 1
       ELSE UNCHANGED <<stock, next_rowid>>
    /\ last' = [NoLast EXCEPT !.op = "add_row", !.ret = "error", !.rowid = next_rowid,
                               !.entries = entries]
    /\ UNCHANGED <<kod_mappings, next_map_id, actions_log, undo_stack, popup>>

\* save_edit when update_cell raises: the error box is shown and save_edit
\* returns before the push
EditCellFails(rowid, col_name, new_value, at) ==
    /\ Len(actions_log) + faults < MaxCalls
    /\ faults' = faults + 1
    /\ rowid \in DOMAIN stock
    /\ validate(col_name, new_value).ok
    /\ validate(col_name, new_value).v # StrV(TreeText(stock[rowid][col_name]))
    /\ stock' = IF at = "log"
                THEN update_cell(stock, rowid, col_name, validate(col_name, new_value).v)
                ELSE stock
    /\ last' = [NoLast EXCEPT !.op = "edit_cell", !.ret = "error", !.rowid = rowid,
                               !.col = col_name, !.text = new_value]
    /\ UNCHANGED <<kod_mappings, next_map_id, next_rowid, actions_log, undo_stack, popup>>

\* undo_action when undo_add or undo_update raises: the entry was popped
\* before the call and nothing catches the exception
UndoActionFails(at) ==
    /\ Len(actions_log) + faults < MaxCalls
    /\ faults' = faults + 1
    /\ undo_stack # <<>>
    /\ LET entry == pop(undo_stack).entry
       IN  /\ undo_stack' = pop(undo_stack).rest
           /\ stock' = IF at = "log"
                       THEN IF entry.action = "add" THEN undo_add(stock, entry.rowid)
                            ELSE undo_update(stock, entry.rowid, entry.old)
                       ELSE stock
           /\ last' = [NoLast EXCEPT !.op = "undo", !.ret = "error", !.entry = entry,
                                      !.rowid = entry.rowid]
    /\ UNCHANGED <<kod_mappings, next_map_id, next_rowid, actions_log, popup>>

\* create_mapping when create_kod_mapping raises something other than the
\* IntegrityError of its INSERT: the exception leaves the handler
CreateMappingFails(original_text, alternative_text, at) ==
    LET alt_value == Strip(alternative_text)
        original_kod == Strip(original_text)
    IN  /\ Len(actions_log) + faults < MaxCalls
        /\ faults' = faults + 1
        /\ alt_value # <<>> /\ original_kod # <<>>
        /\ next_map_id <= MaxMapId
        /\ IF at = "log"
           THEN /\ \E created_date \in current_timestamp(kod_mappings, actions_log) :
                      kod_mappings' = create_kod_mapping(kod_mappings, next_map_id,
                                                         original_kod, alt_value, created_date)
                /\ next_map_id' = IF SamePair(kod_mappings, original_kod, alt_value) = {}
                                  THEN next_map_id + 1 ELSE next_map_id
           ELSE UNCHANGED <<kod_mappings, next_map_id>>
        /\ last' = [NoLast EXCEPT !.op = "create_mapping", !.ret = "error",
                                   !.original = original_text, !.alternative = alternative_text]
        /\ UNCHANGED <<stock, next_rowid, actions_log, undo_stack, popup>>

\* delete_selected_mapping when delete_kod_mapping raises
DeleteMappingFails(mapping_id, at) ==
    /\ Len(actions_log) + faults < MaxCalls
    /\ faults' = faults + 1
    /\ kod_mappings' = IF at = "log" THEN delete_kod_mapping(kod_mappings, mapping_id)
                       ELSE kod_mappings
    /\ last' = [NoLast EXCEPT !.op = "delete_mapping", !.ret = "error", !.rowid = mapping_id]
    /\ UNCHANGED <<next_map_id, stock, next_rowid, actions_log, undo_stack, popup>>

(* --------------------------- specifications --------------------------- *)
\* the mapping form alone
NextMapping ==
    \/ \E o \in OriginalInputs, a \in AlternativeInputs : CreateMapping(o, a)
    \/ \E id \in 1..MaxMapId : DeleteMapping(id)

SpecMapping == Init /\ [][NextMapping]_vars

\* the editing surface alone
NextEditing ==
    \/ \E e \in RowInputs : AddRow(e)
    \/ \E r \in 1..MaxRowId, e \in CellEdits : EditCell(r, e[1], e[2])
    \/ UndoAction

SpecEditing == Init /\ [][NextEditing]_vars

\* the whole program: a file is uploaded and reconciled while mappings and
\* stock rows change
MayChange == Len(actions_log) < MaxChanges

Change ==
    \/ \E o \in OriginalInputs, a \in AlternativeInputs : MayChange /\ CreateMapping(o, a)
    \/ \E id \in 1..MaxMapId : MayChange /\ DeleteMapping(id)
    \/ \E e \in RowInputs : MayChange /\ AddRow(e)
    \/ \E r \in 1..MaxRowId, e \in CellEdits : MayChange /\ EditCell(r, e[1], e[2])
    \/ MayChange /\ UndoAction

Next ==
    \/ \E file \in Files : UploadFile(file)
    \/ \E text \in MultiplierInputs : ApplyQtyMultiplier(text)
    \/ Change

Spec == Init /\ [][Next]_vars

\* mappings and stock rows are changed while the connection to the server
\* may be lost during a repository call
MayCall == Len(actions_log) + faults < MaxCalls

Faulty ==
    \/ \E e \in RowInputs, at \in FaultPoints : AddRowFails(e, at)
    \/ \E r \in 1..MaxRowId, e \in CellEdits, at \in FaultPoints :
          EditCellFails(r, e[1], e[2], at)
    \/ \E at \in FaultPoints : UndoActionFails(at)
    \/ \E o \in OriginalInputs, a \in AlternativeInputs, at \in FaultPoints :
          CreateMappingFails(o, a, at)
    \/ \E id \in 1..MaxMapId, at \in FaultPoints : DeleteMappingFails(id, at)

NextFaulty ==
    \/ \E o \in OriginalInputs, a \in AlternativeInputs : MayCall /\ CreateMapping(o, a)
    \/ \E id \in 1..MaxMapId : MayCall /\ DeleteMapping(id)
    \/ \E e \in RowInputs : MayCall /\ AddRow(e)
    \/ \E r \in 1..MaxRowId, e \in CellEdits : MayCall /\ EditCell(r, e[1], e[2])
    \/ MayCall /\ UndoAction
    \/ MayCall /\ ExportToExcel
    \/ Faulty

SpecFaulty == Init /\ [][NextFaulty]_vars

(* ============================== claims ================================ *)

(* ------------------------------- C1 ----------------------------------- *)
\* C1: after create(original, alternative) has returned, from any state of
\* the mapping store, resolve(alternative) returns original: every result
\* get_kod_mapping can give for the alternative is the (stripped) original.
C1_CreateThenResolve ==
    (last.op = "create_mapping" /\ last.ret \in {"true", "false"}) =>
        get_kod_mapping(kod_mappings, StrV(last.alternative)) = {StrV(Strip(last.original))}

(* ------------------------------- C2 ----------------------------------- *)
\* the rows of the store that hold the stripped pair
RowsOfPair(maps, original, alternative) ==
    {m \in maps : m.original_kod = Strip(original) /\ m.alternative_value = Strip(alternative)}

\* the log grew by exactly one entry of the given level
OneMoreEntry(level) ==
    /\ Len(actions_log') = Len(actions_log) + 1
    /\ SubSeq(actions_log', 1, Len(actions_log)) = actions_log
    /\ actions_log'[Len(actions_log')].level = level

C2_CreateStep ==
    (last'.op = "create_mapping" /\ last'.ret # "rejected") =>
        IF RowsOfPair(kod_mappings, last'.original, last'.alternative) # {}
        THEN /\ last'.ret = "false"
             /\ kod_mappings' = kod_mappings
             /\ OneMoreEntry("WARNING")
        ELSE /\ last'.ret = "true"
             /\ kod_mappings \subseteq kod_mappings'
             /\ Cardinality(kod_mappings') = Cardinality(kod_mappings) + 1
             /\ Cardinality(RowsOfPair(kod_mappings', last'.original, last'.alternative)) = 1
             /\ OneMoreEntry("INFO")

PairUnique ==
    \A m1, m2 \in kod_mappings :
        (m1.original_kod = m2.original_kod /\ m1.alternative_value = m2.alternative_value)
            => m1 = m2

\* C2: a create of a pair that is already stored (after stripping both
\* inputs) returns false, leaves the rows unchanged and appends one WARNING
\* entry; a create of a new pair returns true, adds exactly one row and
\* appends one INFO entry; no pair is ever stored twice.
C2_DuplicateCreate == [][C2_CreateStep]_vars /\ []PairUnique

\* a duplicate create was rejected: false was returned, the pair is stored
\* once and the last log entry is the WARNING
C2_Witness ==
    /\ last.op = "create_mapping"
    /\ last.ret = "false"
    /\ Cardinality(RowsOfPair(kod_mappings, last.original, last.alternative)) = 1
    /\ actions_log # <<>>
    /\ actions_log[Len(actions_log)].level = "WARNING"

(* ---------------------------- C3 .. C6 -------------------------------- *)
\* the tags of the popup were computed in the current state
Classified == last.op \in {"upload", "apply_qty_multiplier"}

LineIds == 1..Len(popup.lines)

\* the Value of line k after trimming
Trimmed(k) == Strip(PyStr(popup.lines[k].Value))

\* the identifiers (KOD) of the rows of the stock table, as stored
StoredIds == {stock[r].KOD.s : r \in {x \in DOMAIN stock : stock[x].KOD.t = "str"}}

\* the identifiers of the rows of the stock table after trimming
TrimmedIds == {Strip(x) : x \in StoredIds}

\* the originals the store maps the alternative to
OriginalsOf(alternative) ==
    {m.original_kod : m \in {x \in kod_mappings : x.alternative_value = alternative}}

\* C3: a line whose trimmed Value equals the KOD of some stock row is
\* classified DirectMatch, whatever mappings exist for that value.
C3_DirectMatch ==
    Classified =>
        \A k \in LineIds :
            Trimmed(k) \in StoredIds => popup.lines[k].tags = "direct_match"

\* a line is a direct match although the store maps its value as an alternative
C3_Witness ==
    /\ Classified
    /\ \E k \in LineIds :
          /\ Trimmed(k) \in StoredIds
          /\ Trimmed(k) # PyStr(popup.lines[k].Value)
          /\ popup.lines[k].tags = "direct_match"
    /\ \E k \in LineIds :
          /\ Trimmed(k) \in StoredIds
          /\ OriginalsOf(Trimmed(k)) # {}
          /\ popup.lines[k].tags = "direct_match"

\* C4: a line whose Value is no identifier but is mapped to an identifier a
\* stock row has is classified MappedMatch, and its Box is the location of a
\* row of that identifier, also when the alternative has further mappings.
C4_MappedMatch ==
    last.op = "upload" =>
        \A k \in LineIds :
            (/\ Trimmed(k) \notin TrimmedIds
             /\ OriginalsOf(Trimmed(k)) \cap StoredIds # {}) =>
                /\ popup.lines[k].tags = "mapped_match"
                /\ \E r \in DOMAIN stock :
                      /\ stock[r].KOD.t = "str"
                      /\ stock[r].KOD.s \in OriginalsOf(Trimmed(k))
                      /\ popup.lines[k].Box = PyStr(stock[r].YER)

IsFraction(v) == v.t = "float" /\ \E k \in 1..Len(v.s) : v.s[k] # "0"

\* a quantity that is present, not blank and an integer
IsInteger(v) ==
    \/ v.t = "int"
    \/ v.t = "str" /\ ParseInt(v.s).ok
    \/ v.t = "float" /\ ~IsFraction(v)

IntegerOf(v) == IF v.t \in {"int", "float"} THEN v.i ELSE ParseInt(v.s).i

\* the stock check the claim gives for line quantity q and row quantity d
ExpectedStockCheck(q, d) ==
    IF IsInteger(q) /\ IsInteger(d)
    THEN IF IntegerOf(q) > IntegerOf(d)
         THEN PyStr(IntV(IntegerOf(d) - IntegerOf(q)))
         ELSE PyStr(IntV(IntegerOf(q)))
    ELSE <<>>

\* the first row of the fetched table with that identifier, 0 if there is none
FirstRow(df, id) ==
    IF \E j \in 1..Len(df) : df[j].KOD = StrV(id)
    THEN CHOOSE j \in 1..Len(df) :
            /\ df[j].KOD = StrV(id)
            /\ \A i \in 1..(j - 1) : df[i].KOD # StrV(id)
    ELSE 0

\* the rows line k can be matched with in the table fetched at the upload:
\* the row of its Value, else the row of an original its Value is mapped to
MatchedRows(k) ==
    IF FirstRow(popup.db_df, PyStr(popup.lines[k].Value)) # 0
    THEN {FirstRow(popup.db_df, PyStr(popup.lines[k].Value))}
    ELSE IF OriginalsOf(Trimmed(k)) = {} THEN {0}
         ELSE {FirstRow(popup.db_df, o) : o \in OriginalsOf(Trimmed(k))}

Top(stack) == stack[Len(stack)]

\* an insert through the add-row dialog leaves Add{rowid} on top of the stack
\* and the row in the table
C7_InsertPushes ==
    (last.op = "add_row" /\ last.ret = "ok") =>
        /\ last.rowid \in DOMAIN stock
        /\ undo_stack # <<>>
        /\ Top(undo_stack).action = "add"
        /\ Top(undo_stack).rowid = last.rowid

\* an undo with Add{X} on top pops it and deletes row X and nothing else
C7_UndoStep ==
    (last'.op = "undo" /\ undo_stack # <<>> /\ Top(undo_stack).action = "add") =>
        /\ undo_stack' = SubSeq(undo_stack, 1, Len(undo_stack) - 1)
        /\ Top(undo_stack).rowid \notin DOMAIN stock'
        /\ DOMAIN stock' = DOMAIN stock \ {Top(undo_stack).rowid}
        /\ \A r \in DOMAIN stock' : stock'[r] = stock[r]

\* C7: after a row was inserted through the editing surface (rowid X, Add{X}
\* pushed), an undo with Add{X} on top pops the entry and the table holds no
\* row X, every other row being unchanged.
C7_UndoAdd == []C7_InsertPushes /\ [][C7_UndoStep]_vars

\* an add was undone while another row was in the table
C7_Witness ==
    /\ last.op = "undo"
    /\ last.entry.action = "add"
    /\ last.entry.rowid \notin DOMAIN stock
    /\ DOMAIN stock # {}

\* a cell update pushes Update{rowid, the full row as it was before}
C8_EditStep ==
    (last'.op = "edit_cell" /\ last'.ret = "ok") =>
        /\ last'.rowid \in DOMAIN stock
        /\ undo_stack' = Append(undo_stack, [action |-> "update", rowid |-> last'.rowid,
                                              old |-> stock[last'.rowid]])
        /\ DOMAIN stock' = DOMAIN stock
        /\ \A r \in DOMAIN stock \ {last'.rowid} : stock'[r] = stock[r]

\* an undo with Update{rowid, old} on top sets every column of the row to old
C8_UndoStep ==
    (last'.op = "undo" /\ undo_stack # <<>> /\ Top(undo_stack).action = "update") =>
        /\ DOMAIN stock' = DOMAIN stock
        /\ Top(undo_stack).rowid \in DOMAIN stock
        /\ \A r \in DOMAIN stock :
              stock'[r] = IF r = Top(undo_stack).rowid THEN Top(undo_stack).old ELSE stock[r]

\* C8: undoing Update{rowId, priorFieldValues} sets every column of the row to
\* its value in the full-row snapshot taken right before the cell update, so
\* update followed by undo restores the row column by column.
C8_UndoUpdate == [][C8_EditStep /\ C8_UndoStep]_vars

\* an update of the quantity was undone: the row is the snapshot again,
\* identifier, location and quantity
C8_Witness ==
    /\ last.op = "undo"
    /\ last.entry.action = "update"
    /\ last.rowid \in DOMAIN stock
    /\ stock[last.rowid] = last.entry.old
    /\ last.entry.old = [KOD |-> StrV(tA), YER |-> StrV(tR1), MIKTAR |-> IntV(2)]
    /\ actions_log[Len(actions_log) - 1].what = "update"

\* an undo removes and applies the top entry; on an empty stack it changes
\* neither the stack, the table nor the log
C9_UndoStep ==
    last'.op = "undo" =>
        IF undo_stack = <<>>
        THEN /\ last'.ret = "empty"
             /\ undo_stack' = <<>>
             /\ stock' = stock
             /\ actions_log' = actions_log
        ELSE /\ last'.ret = "ok"
             /\ undo_stack' = SubSeq(undo_stack, 1, Len(undo_stack) - 1)
             /\ last'.entry = Top(undo_stack)
             /\ Top(undo_stack).action = "add" => Top(undo_stack).rowid \notin DOMAIN stock'
             /\ Top(undo_stack).action = "update" =>
                   stock'[Top(undo_stack).rowid] = Top(undo_stack).old

\* no other handler removes or reorders entries
C9_OtherStep ==
    last'.op # "undo" =>
        \/ undo_stack' = undo_stack
        \/ /\ Len(undo_stack') = Len(undo_stack) + 1
           /\ SubSeq(undo_stack', 1, Len(undo_stack)) = undo_stack

\* C9: the undo stack is LIFO: each undo removes and applies exactly the
\* entry pushed last and not yet undone, an entry leaves the stack only by
\* being undone, and an undo on an empty stack is a no-op.
C9_Lifo == [][C9_UndoStep /\ C9_OtherStep]_vars

\* an undo took the top entry of a stack that held an older, different entry
C9_Witness ==
    /\ last.op = "undo"
    /\ last.ret = "ok"
    /\ undo_stack # <<>>
    /\ undo_stack[1] # last.entry

(* ------------------------------- C10 ---------------------------------- *)
\* the original quantity of line k: the quantity read from the file
Original(k) ==
    IF popup.has_qty_orig THEN popup.lines[k].Qty_orig ELSE popup.lines[k].Qty

\* a multiplier application sets every line with an integer original
\* quantity to original * m and keeps the original
C10_Quantities ==
    /\ Len(popup'.lines) = Len(popup.lines)
    /\ \A k \in LineIds :
          /\ popup'.lines[k].Qty_orig = Original(k)
          /\ IsInteger(Original(k)) =>
                popup'.lines[k].Qty = IntV(IntegerOf(Original(k)) * last'.multiplier)

\* In Stock of every line is the stock check of its current quantity
C10_StockChecks ==
    \A k \in LineIds :
        \E j \in MatchedRows(k) :
            popup.lines[k].InStock =
                IF j = 0 THEN <<>>
                ELSE ExpectedStockCheck(popup.lines[k].Qty, popup.db_df[j].MIKTAR)

\* the classifications line k can get against the current stock table and
\* mapping store
CurrentTags(k) ==
    IF Trimmed(k) \in TrimmedIds THEN {"direct_match"}
    ELSE IF OriginalsOf(Trimmed(k)) = {} THEN {""}
    ELSE {IF o \in TrimmedIds THEN "mapped_match" ELSE "" : o \in OriginalsOf(Trimmed(k))}

\* no alternative is stored with two originals
Unambiguous ==
    \A m1, m2 \in kod_mappings :
        m1.alternative_value = m2.alternative_value => m1.original_kod = m2.original_kod

Parses(c, text) ==
    text = <<>> \/ ColType(c) \notin {"INT", "INTEGER"} \/ ParseInt(text).ok

C11_Step ==
    /\ (last'.op = "add_row" /\ \E k \in 1..Len(Cols) : ~Parses(Cols[k], last'.entries[Cols[k]]))
          => /\ last'.ret = "invalid"
             /\ UNCHANGED <<stock, next_rowid, actions_log, undo_stack>>
    /\ (last'.op = "edit_cell" /\ ~Parses(last'.col, last'.text))
          => /\ last'.ret = "invalid"
             /\ UNCHANGED <<stock, next_rowid, actions_log, undo_stack>>

\* C11: when an entered value of an insert, or the new value of a cell
\* update, does not parse to the declared type of its column, the handler
\* returns before any repository call: the stock table, the audit log and the
\* undo stack are unchanged, also when earlier columns of the row were valid.
C11_ValidationAbort == [][C11_Step]_vars

\* an insert was aborted on its third column after the first two validated,
\* in a run that had already written rows, log entries and undo entries
C11_Witness ==
    /\ last.op = "add_row"
    /\ last.ret = "invalid"
    /\ Parses("KOD", last.entries.KOD) /\ last.entries.KOD # <<>>
    /\ Parses("YER", last.entries.YER) /\ last.entries.YER # <<>>
    /\ ~Parses("MIKTAR", last.entries.MIKTAR)
    /\ \A r \in DOMAIN stock : stock[r].KOD # StrV(last.entries.KOD)
    /\ undo_stack # <<>>
    /\ actions_log # <<>>

(* ------------------------------- C12 ---------------------------------- *)
\* C12: whenever an insert, a cell update, an undo or a mapping create or
\* delete reports a failure to its caller (an exception leaves the repository
\* function), the stock table and kod_mappings are as they were before the
\* call.
C12_NoPartialWrites ==
    [][last'.ret = "error" => (stock' = stock /\ kod_mappings' = kod_mappings)]_vars

(* ------------------------------- C13 ---------------------------------- *)
\* the handler that ran last made a mutating repository call that returned
Completed(l) ==
    \/ l.op \in {"add_row", "edit_cell", "undo"} /\ l.ret = "ok"
    \/ l.op = "create_mapping" /\ l.ret \in {"true", "false"}
    \/ l.op = "delete_mapping" /\ l.ret # "error"

\* the entry a completed call writes
EntryOf(l, top) ==
    IF l.op = "add_row" THEN [level |-> "INFO", what |-> "insert"]
    ELSE IF l.op = "edit_cell" THEN [level |-> "INFO", what |-> "update"]
    ELSE IF l.op = "undo"
         THEN [level |-> "INFO",
               what |-> IF top.action = "add" THEN "undo_add" ELSE "undo_update"]
    ELSE IF l.op = "delete_mapping" THEN [level |-> "INFO", what |-> "delete_mapping"]
    ELSE [level |-> IF l.ret = "true" THEN "INFO" ELSE "WARNING", what |-> "create_mapping"]

C13_Step ==
    /\ Len(actions_log') >= Len(actions_log)
    /\ SubSeq(actions_log', 1, Len(actions_log)) = actions_log
    /\ Completed(last') =>
          actions_log' = Append(actions_log, EntryOf(last', last'.entry))

C13_Levels == \A k \in 1..Len(actions_log) : actions_log[k].level \in {"INFO", "WARNING"}

\* C13: every completed mutating call (insert, cell update, undo of an add,
\* undo of an update, mapping create, mapping delete) appends exactly one
\* entry to actions_log, no step changes or removes an entry already written,
\* and the levels written are INFO and WARNING only (WARNING for the rejected
\* duplicate mapping).
C13_AppendOnly == [][C13_Step]_vars /\ []C13_Levels

\* a row was inserted after a duplicate mapping had been rejected: the log
\* holds the WARNING and then the INFO entry
C13_Witness ==
    /\ last.op = "add_row" /\ last.ret = "ok"
    /\ Len(actions_log) = 2
    /\ actions_log[1] = [level |-> "WARNING", what |-> "create_mapping"]
    /\ actions_log[2] = [level |-> "INFO", what |-> "insert"]

(* ------------------------------- C14 ---------------------------------- *)
\* every alternative value of the store has one original
OneOriginal(maps) ==
    \A m \in maps :
        Cardinality({x.original_kod : x \in {y \in maps :
                        y.alternative_value = m.alternative_value}}) <= 1

\* C14: in every state of the mapping store reached by create and delete
\* calls, an alternative value is mapped to at most one original identifier:
\* no call takes a store with one original per alternative to a store with
\* two originals for one alternative.
C14_OneOriginal == [][OneOriginal(kod_mappings) => OneOriginal(kod_mappings')]_vars

(* ------------------------------- C15 ---------------------------------- *)
\* the field an entered text is inserted as: null for an empty entry, the
\* integer for a quantity, the text itself otherwise
FieldOf(c, text) ==
    IF text = <<>> THEN NoneV
    ELSE IF c = "MIKTAR" THEN IntV(IntegerOf(StrV(text)))
    ELSE StrV(text)

FieldsOf(entries) ==
    [KOD |-> FieldOf("KOD", entries.KOD), YER |-> FieldOf("YER", entries.YER),
     MIKTAR |-> FieldOf("MIKTAR", entries.MIKTAR)]

\* how many rows of a fetched table equal row
CountOf(df, row) == Cardinality({k \in 1..Len(df) : df[k] = row})

C15_Step ==
    (last'.op = "add_row" /\ last'.ret = "ok") =>
        /\ last'.rowid \notin DOMAIN stock
        /\ DOMAIN stock' = DOMAIN stock \cup {last'.rowid}
        /\ stock'[last'.rowid] = FieldsOf(last'.entries)
        /\ \A r \in DOMAIN stock : stock'[r] = stock[r]
        /\ \A before \in fetch_all_rows(stock), after \in fetch_all_rows(stock') :
              /\ Len(after) = Len(before) + 1
              /\ \A k \in 1..Len(after) :
                    CountOf(after, after[k]) =
                        CountOf(before, after[k])
                          + (IF after[k] = FieldsOf(last'.entries) THEN 1 ELSE 0)

\* C15: after an insert has returned rowid X, a fetch of all rows made before
\* any other change holds exactly one row X, whose fields are the inserted
\* values (an empty entry stored as null), and every row that was there before
\* the insert is still there, unchanged.
C15_InsertFetch == [][C15_Step]_vars

\* a row with two empty entries was inserted beside an older row: it is
\* stored with its identifier as typed and null location and quantity
C15_Witness ==
    /\ last.op = "add_row" /\ last.ret = "ok"
    /\ last.entries = [KOD |-> tSpA, YER |-> <<>>, MIKTAR |-> <<>>]
    /\ Cardinality(DOMAIN stock) >= 2
    /\ stock[last.rowid] = [KOD |-> StrV(tSpA), YER |-> NoneV, MIKTAR |-> NoneV]
    /\ \E df \in fetch_all_rows(stock) : CountOf(df, stock[last.rowid]) = 1

(* ------------------------------- C16 ---------------------------------- *)
\* the rows of the store with that id
RowsOfId(maps, id) == {m \in maps : m.id = id}

C16_Step ==
    last'.op = "delete_mapping" =>
        /\ last'.ret # "error"
        /\ kod_mappings' \subseteq kod_mappings
        /\ kod_mappings \ kod_mappings' = RowsOfId(kod_mappings, last'.rowid)
        /\ RowsOfId(kod_mappings, last'.rowid) = {} => kod_mappings' = kod_mappings
        /\ RowsOfId(kod_mappings', last'.rowid) = {}
        /\ OneMoreEntry("INFO")

\* an id names at most one mapping
C16_IdsDistinct == \A m1, m2 \in kod_mappings : m1.id = m2.id => m1 = m2

\* C16: delete(id) removes the mapping with that id and no other; with an id
\* that is not in the store (never created, or deleted before) it raises
\* nothing and leaves the mappings as they are, so a second delete(id) changes
\* nothing; every call appends one entry to the log.
C16_DeleteIdempotent == [][C16_Step]_vars /\ []C16_IdsDistinct

\* a delete was called with an id that had been created and is no longer
\* stored, right after another delete, while other mappings are stored
C16_Witness ==
    /\ last.op = "delete_mapping"
    /\ last.rowid < next_map_id
    /\ RowsOfId(kod_mappings, last.rowid) = {}
    /\ kod_mappings # {}
    /\ Len(actions_log) >= 2
    /\ actions_log[Len(actions_log)].what = "delete_mapping"
    /\ actions_log[Len(actions_log) - 1].what = "delete_mapping"

(* ------------------------------- C17 ---------------------------------- *)
\* C17: when the multiplier is applied, every line whose original quantity
\* is blank or not an integer keeps its quantity and is counted in the
\* skipped report, and a multiplier text that is no integer counts as 1:
\* every line with an integer quantity gets its original quantity.
C17_SkipAndFallback ==
    [][last'.op = "apply_qty_multiplier" =>
          /\ \A k \in LineIds :
                ~IsInteger(Original(k)) => popup'.lines[k].Qty = popup.lines[k].Qty
          /\ last'.skipped = Cardinality({k \in LineIds : ~IsInteger(Original(k))})
          /\ ~ParseInt(last'.text).ok =>
                /\ last'.multiplier = 1
                /\ \A k \in LineIds :
                      IsInteger(Original(k)) =>
                          popup'.lines[k].Qty = IntV(IntegerOf(Original(k)))]_vars

(* ------------------------------- C18 ---------------------------------- *)
\* the handler that ran last has listed the mappings anew
Listed ==
    \/ last.op = "create_mapping" /\ last.ret = "true"
    \/ last.op = "delete_mapping" /\ last.ret # "error"

\* C18: the list of mappings holds every stored mapping exactly once, the
\* most recently created first: of two mappings, the one created later (the
\* one with the larger id) comes earlier, also when both were created within
\* one second.
C18_NewestFirst ==
    Listed =>
        /\ Len(last.listed) = Cardinality(kod_mappings)
        /\ {last.listed[k] : k \in 1..Len(last.listed)} = {m.id : m \in kod_mappings}
        /\ \A j, k \in 1..Len(last.listed) : j < k => last.listed[j] > last.listed[k]

(* ------------------------------- C19 ---------------------------------- *)
\* the stock rows line k is matched with under its tag: the rows of its
\* trimmed Value, or the rows of an original its trimmed Value is mapped to
RowsOfTag(k) ==
    {r \in DOMAIN stock :
        /\ stock[r].KOD.t = "str"
        /\ IF popup.lines[k].tags = "direct_match"
           THEN Strip(stock[r].KOD.s) = Trimmed(k)
           ELSE Strip(stock[r].KOD.s) \in OriginalsOf(Trimmed(k))}

\* C19: after the upload and after every multiplier application, in a store
\* with one original per alternative, the tag and the annotations of every
\* line agree: a line tagged as direct or mapped match has the location of a
\* matched row as its Box, and a line without tag has empty Box and In Stock.
C19_TagsAgree ==
    (Classified /\ Unambiguous) =>
        \A k \in LineIds :
            IF popup.lines[k].tags = ""
            THEN popup.lines[k].Box = <<>> /\ popup.lines[k].InStock = <<>>
            ELSE \E r \in RowsOfTag(k) : popup.lines[k].Box = PyStr(stock[r].YER)

(* ------------------------------- C20 ---------------------------------- *)
\* a quantity that is a number: an integer or a number with a fraction
IsNumber(v) == IsInteger(v) \/ IsFraction(v)

\* ten times a number with at most one digit after the point
Tenths(v) ==
    IF v.t = "float" THEN 10 * v.i + DigitVal(v.s[1]) ELSE 10 * IntegerOf(v)

\* C20: every application of a multiplier works on the quantities read from
\* the file, which are captured at the first application and kept: after
\* multiplier m1 and then m2 every line with a number as quantity holds
\* original * m2, and multiplier 1 gives the original quantities back.
C20_FromOriginal ==
    [][last'.op = "apply_qty_multiplier" =>
          \A k \in LineIds :
              /\ popup'.lines[k].Qty_orig = Original(k)
              /\ IsNumber(Original(k)) =>
                    /\ IsNumber(popup'.lines[k].Qty)
                    /\ Tenths(popup'.lines[k].Qty) = Tenths(Original(k)) * last'.multiplier]_vars

(* ------------------------------- C21 ---------------------------------- *)
\* C21: after every comparison (at upload and after the multiplier) each
\* uploaded line is in exactly one of direct_matches, mapped_matches and
\* still_unmatched: the three frames are pairwise disjoint and together hold
\* the index label of every line.
C21_Partition ==
    last.op \in {"upload", "apply_qty_multiplier"} =>
        LET c == last.comparison
        IN  /\ c.direct_matches \cup c.mapped_matches \cup c.still_unmatched
                  = 1..Len(popup.lines)
            /\ c.direct_matches \cap c.mapped_matches = {}
            /\ c.direct_matches \cap c.still_unmatched = {}
            /\ c.mapped_matches \cap c.still_unmatched = {}

\* a comparison that put one line among the direct and one among the mapped
\* matches
C21_Witness ==
    /\ last.op \in {"upload", "apply_qty_multiplier"}
    /\ last.comparison.direct_matches # {}
    /\ last.comparison.mapped_matches # {}
(* ------------------------------- C22 ---------------------------------- *)
\* undo_action invoked until the ledger is empty: the table that is left
RECURSIVE UndoAll(_, _)
UndoAll(tbl, stack) ==
    IF stack = <<>> THEN tbl
    ELSE LET entry == pop(stack).entry
         IN  UndoAll(IF entry.action = "add" THEN undo_add(tbl, entry.rowid)
                     ELSE undo_update(tbl, entry.rowid, entry.old),
                     pop(stack).rest)

\* C22: the table that undoing the whole ledger would leave never changes
\* under add row, edit cell and undo.  The ledger is empty at the start, so
\* that table is the table of the start, and whenever the ledger is empty
\* again the stock table has exactly the rows and field values of the start.
C22_UndoAllRestores ==
    [][UndoAll(stock', undo_stack') = UndoAll(stock, undo_stack)]_vars

\* the ledger was emptied by an undo after an insert or an edit of a table
\* that had a row at the start
C22_Witness ==
    /\ last.op = "undo"
    /\ last.ret = "ok"
    /\ undo_stack = <<>>
    /\ Len(actions_log) >= 2
    /\ DOMAIN stock # {}
(* ------------------------------- C23 ---------------------------------- *)
\* C23: after every step of add row, edit cell and undo, every entry of the
\* undo ledger names a rowid that is in the stock table, and the entry an
\* undo applied named a row that was in the table when the undo ran.
C23_Step ==
    /\ \A k \in 1..Len(undo_stack') : undo_stack'[k].rowid \in DOMAIN stock'
    /\ (last'.op = "undo" /\ last'.ret = "ok") => last'.entry.rowid \in DOMAIN stock

C23_EntriesRefer == [][C23_Step]_vars

\* an undo removed an added row while an older entry stayed in the ledger
C23_Witness ==
    /\ last.op = "undo"
    /\ last.ret = "ok"
    /\ last.entry.action = "add"
    /\ undo_stack # <<>>
(* ------------------------------- C24 ---------------------------------- *)
\* a step of undo_action in which undo_add or undo_update raised
UndoFailed == last'.op = "undo" /\ last'.ret = "error"

\* the ledger after a failed undo: the top entry is gone and nothing else
\* of the ledger changed
C24_Popped ==
    [][UndoFailed => /\ undo_stack # <<>>
                     /\ last'.entry = pop(undo_stack).entry
                     /\ undo_stack' = pop(undo_stack).rest]_vars

\* C24: when the repository call of undo_action fails, the popped entry is
\* not put back (the ledger is one entry shorter) and the stock table is as
\* it was before the undo.
C24_PoppedNotReverted ==
    [][UndoFailed => /\ undo_stack # <<>>
                     /\ undo_stack' = pop(undo_stack).rest
                     /\ stock' = stock]_vars
(* ------------------------------- C25 ---------------------------------- *)
\* C25: a step of upload_file (with its classification) or of
\* apply_qty_multiplier changes neither the stock table, the mapping table,
\* the audit log nor the undo ledger.
C25_ReadOnly ==
    [][last'.op \in {"upload", "apply_qty_multiplier"} =>
           UNCHANGED <<stock, kod_mappings, actions_log, undo_stack>>]_vars

\* the multiplier was applied to an uploaded file while the stock table, the
\* mapping table, the audit log and the undo ledger all held something
C25_Witness ==
    /\ last.op = "apply_qty_multiplier"
    /\ last.multiplier # 1
    /\ DOMAIN stock # {}
    /\ kod_mappings # {}
    /\ actions_log # <<>>
    /\ undo_stack # <<>>
(* ------------------------------- C26 ---------------------------------- *)
\* the text of In Stock shows a number below zero
Negative(text) == text # <<>> /\ Head(text) = "-"

\* the lines and rows for which In Stock was computed from integers: line k
\* has an integer quantity and In Stock is the stock check against row j
Computed ==
    {kj \in LineIds \X (1..Len(popup.db_df)) :
        /\ kj[2] \in MatchedRows(kj[1])
        /\ IsInteger(popup.lines[kj[1]].Qty)
        /\ IsInteger(popup.db_df[kj[2]].MIKTAR)
        /\ popup.lines[kj[1]].InStock =
              ExpectedStockCheck(popup.lines[kj[1]].Qty, popup.db_df[kj[2]].MIKTAR)}

\* a negative In Stock is only shown for a line that asks for more than the
\* stock
C26_NegativeOnlyIfShort ==
    Classified =>
        \A kj \in Computed :
            Negative(popup.lines[kj[1]].InStock) =>
                IntegerOf(popup.lines[kj[1]].Qty) > IntegerOf(popup.db_df[kj[2]].MIKTAR)

\* a line that asks for more than the stock shows a negative In Stock
C26_ShortIsNegative ==
    Classified =>
        \A kj \in Computed :
            IntegerOf(popup.lines[kj[1]].Qty) > IntegerOf(popup.db_df[kj[2]].MIKTAR) =>
                Negative(popup.lines[kj[1]].InStock)

\* C26: for a matched line with integer q and dbQty, at the upload and after
\* any multiplier, In Stock is below zero if and only if q > dbQty.
C26_NegativeIffShort ==
    Classified =>
        \A kj \in Computed :
            Negative(popup.lines[kj[1]].InStock) <=>
                IntegerOf(popup.lines[kj[1]].Qty) > IntegerOf(popup.db_df[kj[2]].MIKTAR)
====
